---- MODULE Spec2Model ----
(***************************************************************************)
(* FunctionFlow (flow.py): the tokenizer (fileToList), the definition and  *)
(* call scanners (findFunctions, parseFunctionDefinition,                  *)
(* parseFunctionCalls) and the DOT emitter (segregate, translateSubgraph,  *)
(* translateDirectory).                                                    *)
(*                                                                         *)
(* A Python string is a sequence of one-character strings, so that         *)
(* str.replace, str.find, str.split and slicing are computed, not assumed. *)
(* A Python list index is 0-based; sequences here are 1-based, and every   *)
(* list access goes through PyAt, which keeps Python's negative indices;   *)
(* an index out of range is the IndexError that ends the run.              *)
(* Every loop of the scanners is one action per pass.                      *)
(***************************************************************************)
EXTENDS Integers, Sequences, FiniteSets, TLC

\* Longest source line (characters) of the tokenizer specification.
MaxLineLen == 4
\* Most lines of a source file of the scanner specification.
MaxLines == 3
\* Most Definitions in a directory, and most callee entries over all of them,
\* of the emitter specification.
MaxNodes == 3
MaxCalls == 2

VARIABLES
    pc,                 \* where the run stands
    fileText,           \* the lines of the file being read (each with its "\n")
    totalFileList,      \* fileToList: the token sequence
    lineBreakIndexes,   \* fileToList: token count at each line start
    secondPass,         \* the tokens of the joined tokens, tokenized again
    index,              \* findFunctions: loop index (0-based)
    inComment,          \* findFunctions: inside a long comment
    inString,           \* findFunctions: inside a string literal
    foundFunctions,     \* findFunctions: the Nodes found so far
    definitionLineNumber, \* findFunctions: definitionLineNumber
    tempIndex,          \* parseFunctionDefinition / parseFunctionCalls: tempIndex
    parenthesisCount,   \* parseFunctionDefinition: parenthesisCount
    newFunction,        \* parseFunctionDefinition: the Node being built
    tempIndexCalls,     \* parseFunctionCalls: tempIndex
    braceCount,         \* parseFunctionCalls: braceCount
    calledFunctions,    \* parseFunctionCalls: calledFunctions
    inCommentCalls,     \* parseFunctionCalls: inComment
    inStringCalls,      \* parseFunctionCalls: inString
    subgraphs,          \* translateDirectory: the subGraph objects
    cluster,            \* --cluster
    excludeExternalFunctions, \* --exclusive
    lineNumbers,        \* --linenumbers (global)
    subgraphNumber,     \* translateDirectory: loop index i (0-based)
    outputLinelist,     \* translateDirectory: first section of the .gv file
    endLinelist,        \* translateDirectory: last section of the .gv file (the edges)
    colorKeyList,       \* translateDirectory: color key block of the .gv file
    nodesDefinedInDirectory \* translateDirectory: the Nodes of the files translated

tokVars == <<fileText, totalFileList, lineBreakIndexes, secondPass>>
findVars == <<index, inComment, inString, foundFunctions, definitionLineNumber>>
defVars == <<tempIndex, parenthesisCount, newFunction>>
callVars == <<tempIndexCalls, braceCount, calledFunctions, inCommentCalls, inStringCalls>>
emitVars == <<subgraphs, cluster, excludeExternalFunctions, lineNumbers,
              subgraphNumber, outputLinelist, endLinelist, colorKeyList,
              nodesDefinedInDirectory>>

vars == <<pc, tokVars, findVars, defVars, callVars, emitVars>>

(***************************************************************************)
(* Python strings and lists                                                *)
(***************************************************************************)

\* s[i:] starts with p (i is 1-based)
StartsWith(s, i, p) ==
    /\ i + Len(p) - 1 <= Len(s)
    /\ \A k \in 1..Len(p) : s[i + k - 1] = p[k]

\* str.find: the lowest 0-based index of sub in s, or -1
Find(s, sub) ==
    LET at == {i \in 1..Len(s) : StartsWith(s, i, sub)}
    IN  IF at = {} THEN -1
        ELSE (CHOOSE i \in at : \A j \in at : i <= j) - 1

RECURSIVE MatchStart(_, _, _)
\* an occurrence of old that a left-to-right, non-overlapping search takes
\* starts at i: old is there, and no occurrence taken earlier covers i
MatchStart(s, i, old) ==
    /\ StartsWith(s, i, old)
    /\ \A j \in (i - Len(old) + 1)..(i - 1) : j < 1 \/ ~MatchStart(s, j, old)

\* str.split(sep): the pieces between the separators, empty ones included
Split(s, sep) ==
    LET m == SelectSeq([i \in 1..Len(s) |-> i], LAMBDA i : MatchStart(s, i, sep))
    IN  [k \in 1..(Len(m) + 1) |->
            SubSeq(s,
                   IF k = 1 THEN 1 ELSE m[k - 1] + Len(sep),
                   IF k = Len(m) + 1 THEN Len(s) ELSE m[k] - 1)]

RECURSIVE JoinRange(_, _, _, _)
JoinRange(list, sep, lo, hi) ==
    IF lo = hi THEN list[lo]
    ELSE LET mid == (lo + hi) \div 2
         IN  JoinRange(list, sep, lo, mid) \o sep \o JoinRange(list, sep, mid + 1, hi)

\* sep.join(list)
Join(list, sep) ==
    IF list = <<>> THEN <<>> ELSE JoinRange(list, sep, 1, Len(list))

\* str.replace: every non-overlapping occurrence of old, left to right.
\* The string, then its pieces, are values before they are used (Python
\* evaluates the receiver of a method before the call).
Replace(s, old, new) ==
    CHOOSE r \in {Join(pieces, new) : pieces \in {Split(v, old) : v \in {s}}} : TRUE

\* list[i] for a Python index i is defined (no IndexError)
PyInRange(list, i) == i >= -Len(list) /\ i < Len(list)

\* list[i] for a Python index i in range: negative indices count from the end
PyAt(list, i) == IF i >= 0 THEN list[i + 1] ELSE list[Len(list) + i + 1]

\* the position a slice bound denotes: negative counts from the end, then clamped
PyBound(list, i) ==
    LET j == IF i < 0 THEN Len(list) + i ELSE i
    IN  IF j < 0 THEN 0 ELSE IF j > Len(list) THEN Len(list) ELSE j

\* list[a:b]
PySlice(list, a, b) == SubSeq(list, PyBound(list, a) + 1, PyBound(list, b))

Range(s) == {s[k] : k \in 1..Len(s)}

RECURSIVE Perms(_)
\* every ordering of a finite set, as sequences
Perms(S) ==
    IF S = {} THEN {<<>>}
    ELSE UNION {{<<x>> \o p : p \in Perms(S \ {x})} : x \in S}

(***************************************************************************)
(* fileToList                                                              *)
(***************************************************************************)

IGNOREQUOTE_WithBackslash == <<"@", "\\", "@">>
\* "@IGNOREQUOTE@", the token a backslash becomes
IGNOREQUOTE == <<"@", "I", "G", "N", "O", "R", "E", "Q", "U", "O", "T", "E", "@">>

\* '@"@', the token a double quote becomes
QUOTE == <<"@", "\"", "@">>

\* "@BEGINLONGCOMMENT@"
BEGINLONGCOMMENT == <<"@", "B", "E", "G", "I", "N", "L", "O", "N", "G", "C", "O", "M", "M", "E", "N", "T", "@">>

\* "@ENDLONGCOMMENT@"
ENDLONGCOMMENT == <<"@", "E", "N", "D", "L", "O", "N", "G", "C", "O", "M", "M", "E", "N", "T", "@">>

\* s with a space on each side
Padded(s) == <<" ">> \o s \o <<" ">>

\* currentLine.replace(c, " c ")
Pad(s, c) == Replace(s, <<c>>, Padded(<<c>>))

\* lines 455-460: cut the line at its first "//", unless a "/*" is found before it
stripLineComment(line) ==
    LET currentLine == Replace(line, <<"/", "/">>, <<"/", "/", " ">>)
        idx == Find(currentLine, <<"/", "/">>)
    IN  IF idx # -1 /\ ~(Find(currentLine, <<"/", "*">>) < idx)
        THEN SubSeq(currentLine, 1, idx)
        ELSE currentLine

\* lines 462-482: the replacements, in the order of the code
replaceCharacters(line) ==
    LET l1 == Pad(Pad(Pad(Pad(Pad(Pad(Pad(line, "("), ")"), "{"), "}"), "["), "]"), ",")
        l2 == Replace(l1, <<"\\">>, Padded(IGNOREQUOTE))
        l3 == Replace(Replace(l2, <<"\t">>, <<>>), <<"\n">>, <<>>)
        l4 == Replace(l3, <<"\"">>, Padded(QUOTE))
        l5 == Replace(l4, <<"/", "*">>, Padded(BEGINLONGCOMMENT))
        l6 == Replace(l5, <<"*", "/">>, Padded(ENDLONGCOMMENT))
    IN  Pad(Pad(Pad(Pad(Pad(Pad(l6, "*"), "="), "-"), "+"), ">"), "<")

\* lines 453-486: the tokens of one line
tokenizeLine(line) ==
    CHOOSE r \in {SelectSeq(Split(v, <<" ">>), LAMBDA x : x # <<>>) :
                      v \in {replaceCharacters(w) : w \in {stripLineComment(line)}}} : TRUE

\* the variables of the scanners and of the emitter before they run
IdleFind ==
    /\ index = 0
    /\ inComment = FALSE
    /\ inString = FALSE
    /\ foundFunctions = <<>>
    /\ definitionLineNumber = 0

IdleDef ==
    /\ tempIndex = 0
    /\ parenthesisCount = 0
    /\ newFunction = <<>>

IdleCalls ==
    /\ tempIndexCalls = 0
    /\ braceCount = 0
    /\ calledFunctions = <<>>
    /\ inCommentCalls = FALSE
    /\ inStringCalls = FALSE

IdleEmit ==
    /\ subgraphs = <<>>
    /\ cluster = FALSE
    /\ excludeExternalFunctions = FALSE
    /\ lineNumbers = FALSE
    /\ subgraphNumber = 0
    /\ outputLinelist = <<>>
    /\ endLinelist = <<>>
    /\ colorKeyList = <<>>
    /\ nodesDefinedInDirectory = <<>>

\* fileToList has opened `lines`: lines 446-447
Opened(lines) ==
    /\ pc = "read"
    /\ fileText = lines
    /\ totalFileList = <<>>
    /\ lineBreakIndexes = <<0>>
    /\ secondPass = <<>>
    /\ IdleFind
    /\ IdleDef
    /\ IdleCalls
    /\ IdleEmit

\* the lines fileToList has gone through
linesRead == Len(lineBreakIndexes) - 1

\* fileToList, one pass of the loop over the lines (lines 449-489)
ReadLine ==
    /\ pc = "read"
    /\ linesRead < Len(fileText)
    /\ lineBreakIndexes' = Append(lineBreakIndexes, Len(totalFileList))
    /\ totalFileList' = totalFileList \o tokenizeLine(fileText[linesRead + 1])
    /\ UNCHANGED <<pc, fileText, secondPass>>
    /\ UNCHANGED <<findVars, defVars, callVars, emitVars>>

(***************************************************************************)
(* The tokenizer on one line, and on its own output joined by spaces       *)
(***************************************************************************)

\* The characters a line is drawn from: the comment, quote and escape
\* characters, a letter, and the two kinds of blank ("*" is also padded).
LineChars == {"/", "*", "\"", "\\", "a", " ", "\t"}

SeqsUpTo(S, n) == UNION {[1..k -> S] : k \in 0..n}

InitTok == \E l \in SeqsUpTo(LineChars, MaxLineLen) : Opened(<<l \o <<"\n">>>>)

\* fileToList has returned; its tokens, joined by single spaces into one
\* line, are tokenized
Retokenize ==
    /\ pc = "read"
    /\ linesRead = Len(fileText)
    /\ secondPass' = tokenizeLine(Join(totalFileList, <<" ">>) \o <<"\n">>)
    /\ pc' = "retokenized"
    /\ UNCHANGED <<fileText, totalFileList, lineBreakIndexes>>
    /\ UNCHANGED <<findVars, defVars, callVars, emitVars>>

NextTok == ReadLine \/ Retokenize

SpecTok == InitTok /\ [][NextTok]_vars

\* fileToList has gone through every line
Tokenized == pc \in {"read", "retokenized"} /\ linesRead = Len(fileText)

\* the 0-based index of the first "//" of a line that has no "/*" starting
\* before it, or -1
LineCommentAt(line) ==
    LET idx == Find(line, <<"/", "/">>)
        blk == Find(line, <<"/", "*">>)
    IN  IF idx # -1 /\ (blk = -1 \/ blk > idx) THEN idx ELSE -1

\* C3: a line with a "//" and no "/*" before it yields the tokens of the text
\* before the "//" and nothing else: no token comes from the comment.
C3_LineCommentStripped ==
    (Tokenized /\ LineCommentAt(fileText[1]) # -1) =>
        totalFileList = tokenizeLine(SubSeq(fileText[1], 1, LineCommentAt(fileText[1])))

QuoteAndTabFree(line) == "\"" \notin Range(line) /\ "\t" \notin Range(line)

sanitizeName(nameIn) ==
    LET n1 == Replace(nameIn, <<":", ":">>, <<"_">>)
        n2 == Replace(n1, <<"~">>, <<>>)
        n3 == Replace(n2, <<"%">>, <<"_">>)
        n4 == Replace(n3, <<".">>, <<"_">>)
        n5 == Replace(n4, <<"?">>, <<"_">>)
        n6 == Replace(n5, <<"|">>, <<"_">>)
        n7 == Replace(n6, <<"!">>, <<"_">>)
        n8 == Replace(n7, <<";">>, <<>>)
    IN  Replace(n8, <<":">>, <<>>)

\* the names isNonStandardFunction answers False for
StandardNames ==
    { <<"i", "f">>, <<"w", "h", "i", "l", "e">>, <<"f", "o", "r">>, <<"p", "r", "i", "n", "t", "f">>, <<"s", "t", "r", "l", "e", "n">>, <<"s", "i", "z", "e", "o", "f">>, <<"r", "e", "t", "u", "r", "n">>,
      <<"=">>, <<"=", "=">>, <<"!", "=">>, <<">", "=">>, <<"<", "=">>, <<">">>, <<"<">>,
      <<",">>, <<"&">>, <<"\"">>,
      <<"*">>, <<"/">>, <<"+">>, <<"-">>,
      <<"|", "|">>, <<"&", "&">>, <<"(">>, <<")">>,
      <<"L", "O", "G", "_", "P", "R", "I", "N", "T">>, <<"s", "w", "i", "t", "c", "h">> }

\* isNonStandardFunction: True unless the name is one of the listed ones
isNonStandardFunction(name) == name \notin StandardNames

(***************************************************************************)
(* findFunctions, parseFunctionDefinition, parseFunctionCalls              *)
(***************************************************************************)

\* class subGraph, __init__; nodesToCompress and nodesNOTtoCompress exist
\* once segregate has run (segregated)
subGraph(subGraphName, includedNodes) ==
    [name |-> subGraphName,
     includedNodes |-> includedNodes,
     functionNamesDefinedInSubgraph |->
         [k \in 1..Len(includedNodes) |-> includedNodes[k].name],
     segregated |-> FALSE,
     nodesToCompress |-> <<>>,
     nodesNOTtoCompress |-> <<>>]

\* class Node, __init__; className is <<>> for False and <<name>> for a name
Node(functionName, parentName, definitionLine, className) ==
    [name |-> functionName,
     parentName |-> parentName,
     line |-> definitionLine,
     className |-> className,
     arguments |-> <<>>,
     calledFunctions |-> <<>>]

\* lines 508-511: inComment after the token
findCommentAfter(token, inC) ==
    LET c1 == IF token = BEGINLONGCOMMENT THEN TRUE ELSE inC
    IN  IF token = ENDLONGCOMMENT THEN FALSE ELSE c1

\* lines 608-613: inComment after the token (a marker inside a string is ignored)
callCommentAfter(token, inC, inS) ==
    LET c1 == IF token = BEGINLONGCOMMENT /\ ~inS THEN TRUE ELSE inC
    IN  IF token = ENDLONGCOMMENT /\ ~inS THEN FALSE ELSE c1

\* lines 513-518 and 615-620: inString after the token at Python index i
stringAfter(fileList, i, inC, inS) ==
    IF /\ ~inC
       /\ PyAt(fileList, i) = QUOTE
       /\ PyAt(fileList, i - 1) # IGNOREQUOTE
    THEN ~inS ELSE inS

\* lines 524-528: l - 1 for the first l with lineBreakIndexes[l] > idx, else 0
definitionLineNumberOf(breaks, idx) ==
    LET after == {l \in 0..(Len(breaks) - 1) : breaks[l + 1] > idx}
    IN  IF after = {} THEN 0
        ELSE (CHOOSE l \in after : \A m \in after : l <= m) - 1

functionNameOf_Joined(token) == sanitizeName(token)
\* lines 554-560: the function name of the token before the "("
functionNameOf(token) ==
    LET functionNameList == Split(token, <<":", ":">>)
    IN  IF Len(functionNameList) > 1
        THEN sanitizeName(functionNameList[2])
        ELSE sanitizeName(token)

\* lines 554-560: the class name
classNameOf(token) ==
    LET functionNameList == Split(token, <<":", ":">>)
    IN  IF Len(functionNameList) > 1
        THEN <<sanitizeName(functionNameList[1])>>
        ELSE <<>>

\* lines 566-575: the argument tokens split at the commas; a group ends at
\* each "," and at the last token (which stays in its group)
groupArguments(arguments) ==
    LET n == Len(arguments)
        ends == SelectSeq([j \in 1..n |-> j - 1],
                          LAMBDA j : arguments[j + 1] = <<",">> \/ j = n - 1)
    IN  [k \in 1..Len(ends) |->
            PySlice(arguments,
                    IF k = 1 THEN 0 ELSE ends[k - 1] + 1,
                    IF ends[k] = n - 1 THEN ends[k] + 1 ELSE ends[k])]

\* line 635: the name recorded for a call through `token`
calleeName(token) ==
    LET parts == Split(token, <<".">>)
    IN  sanitizeName(parts[Len(parts)])

\* The lines of the source files: definitions with and without calls, a
\* qualified name with its header on two lines, a call through a receiver,
\* a nested block, comments of both kinds (one never closed), a string.
SourceLines ==
    << <<"i", "n", "t", " ", "f", "o", "o", "(", ")", "{", " ", "b", "a", "r", "(", ")", ";", " ", "}", "\n">>,
       <<"v", "o", "i", "d", " ", "b", "a", "r", "(", ")", "{", "}", "\n">>,
       <<"v", "o", "i", "d", " ", "A", ":", ":", "m", "(", "i", "n", "t", " ", "x", ",", "\n">>,
       <<"i", "n", "t", " ", "y", ")", "{", " ", "i", "f", "(", "x", ")", "{", " ", "q", "(", ")", ";", " ", "}", " ", "o", ".", "p", "r", "i", "n", "t", "f", "(", "x", ")", ";", " ", "}", "\n">>,
       <<"/", "*", " ", "c", "\n">>,
       <<"*", "/", " ", "}", "\n">>,
       <<"v", "o", "i", "d", " ", "g", "(", ")", "{", " ", "h", "(", ")", ";", " ", "/", "/", " ", "k", "(", ")", "\n">>,
       <<"t", "(", "\"", "\\", "\"", "r", "(", "\"", ")", ";", "\n">> >>

\* the subGraphName of the file
ParentName == <<"a">>

\* the files: one to MaxLines lines
SourceFiles ==
    UNION {[1..n -> Range(SourceLines)] : n \in 1..MaxLines}

InitParse == \E f \in SourceFiles : Opened(f)

\* createSubgraph, lines 415-416: fileToList has returned, findFunctions starts
FindStart ==
    /\ pc = "read"
    /\ linesRead = Len(fileText)
    /\ pc' = "scan"
    /\ UNCHANGED <<tokVars, findVars, defVars, callVars, emitVars>>

\* findFunctions, one pass of the loop of line 507; at a "{" that follows a
\* ")" outside comments and strings, parseFunctionDefinition is entered
FindStep ==
    /\ pc = "scan"
    /\ index < Len(totalFileList)
    /\ LET token == PyAt(totalFileList, index)
           c == findCommentAfter(token, inComment)
           s == stringAfter(totalFileList, index, c, inString)
       IN  /\ inComment' = c
           /\ inString' = s
           /\ IF /\ ~c
                 /\ ~s
                 /\ token = <<"{">>
                 /\ PyAt(totalFileList, index - 1) = <<")">>
              THEN /\ pc' = "definition"
                   /\ definitionLineNumber' =
                          definitionLineNumberOf(lineBreakIndexes, index - 1)
                   /\ tempIndex' = index - 1
                   /\ parenthesisCount' = 0
                   /\ UNCHANGED index
              ELSE /\ index' = index + 1
                   /\ UNCHANGED <<pc, definitionLineNumber, tempIndex, parenthesisCount>>
    /\ UNCHANGED <<foundFunctions, newFunction>>
    /\ UNCHANGED <<tokVars, callVars, emitVars>>

\* parseFunctionDefinition, one pass of the loop of line 545: the walk back
\* to the "(" of the parameter list, then the name, the arguments, and
\* parseFunctionCalls entered at the "{"
DefinitionStep ==
    /\ pc = "definition"
    /\ tempIndex' = tempIndex - 1
    /\ IF ~PyInRange(totalFileList, tempIndex')
       THEN /\ pc' = "IndexError"
            /\ UNCHANGED <<index, parenthesisCount, newFunction, tempIndexCalls>>
       ELSE
         LET token == PyAt(totalFileList, tempIndex')
             counted == IF token = <<")">>
                        THEN parenthesisCount + 1 ELSE parenthesisCount
         IN  IF token # <<"(">>
             THEN /\ parenthesisCount' = counted
                  /\ UNCHANGED <<pc, index, newFunction, tempIndexCalls>>
             ELSE IF counted # 0
             THEN /\ parenthesisCount' = counted - 1
                  /\ UNCHANGED <<pc, index, newFunction, tempIndexCalls>>
             ELSE IF ~PyInRange(totalFileList, tempIndex' - 1)
             THEN /\ pc' = "IndexError"
                  /\ UNCHANGED <<index, parenthesisCount, newFunction, tempIndexCalls>>
             ELSE
               LET nameToken == PyAt(totalFileList, tempIndex' - 1)
                   functionName == functionNameOf(nameToken)
               IN  IF isNonStandardFunction(functionName)
                   THEN /\ newFunction' =
                               [Node(functionName, ParentName, definitionLineNumber,
                                     classNameOf(nameToken))
                                EXCEPT !.arguments =
                                    groupArguments(
                                        PySlice(totalFileList, tempIndex' + 1, index - 1))]
                        /\ pc' = "calls"
                        /\ tempIndexCalls' = index
                        /\ UNCHANGED <<index, parenthesisCount>>
                   ELSE /\ pc' = "scan"
                        /\ index' = index + 1
                        /\ UNCHANGED <<parenthesisCount, newFunction, tempIndexCalls>>
    /\ UNCHANGED <<inComment, inString, foundFunctions, definitionLineNumber>>
    /\ UNCHANGED <<braceCount, calledFunctions, inCommentCalls, inStringCalls>>
    /\ UNCHANGED <<tokVars, emitVars>>

\* parseFunctionCalls, one pass of the loop of line 605; at the closing "}"
\* the Node gets list(set(calledFunctions)), in any order, and is added
CallsStep ==
    /\ pc = "calls"
    /\ tempIndexCalls' = tempIndexCalls + 1
    /\ IF ~PyInRange(totalFileList, tempIndexCalls')
       THEN /\ pc' = "IndexError"
            /\ UNCHANGED <<index, foundFunctions, newFunction>>
            /\ UNCHANGED <<braceCount, calledFunctions, inCommentCalls, inStringCalls>>
       ELSE
         LET token == PyAt(totalFileList, tempIndexCalls')
             c == callCommentAfter(token, inCommentCalls, inStringCalls)
             s == stringAfter(totalFileList, tempIndexCalls', c, inStringCalls)
             live == ~c /\ ~s
             opened == IF live /\ token = <<"{">> THEN braceCount + 1 ELSE braceCount
         IN  IF live /\ token = <<"}">> /\ opened = 0
             THEN /\ \E order \in Perms(Range(calledFunctions)) :
                         foundFunctions' =
                             Append(foundFunctions,
                                    [newFunction EXCEPT !.calledFunctions = order])
                  /\ pc' = "scan"
                  /\ index' = index + 1
                  /\ newFunction' = <<>>
                  /\ braceCount' = 0
                  /\ calledFunctions' = <<>>
                  /\ inCommentCalls' = FALSE
                  /\ inStringCalls' = FALSE
             ELSE /\ inCommentCalls' = c
                  /\ inStringCalls' = s
                  /\ braceCount' = IF live /\ token = <<"}">> THEN opened - 1 ELSE opened
                  /\ calledFunctions' =
                         IF /\ live
                            /\ token = <<"(">>
                            /\ isNonStandardFunction(PyAt(totalFileList, tempIndexCalls' - 1))
                         THEN Append(calledFunctions,
                                     calleeName(PyAt(totalFileList, tempIndexCalls' - 1)))
                         ELSE calledFunctions
                  /\ UNCHANGED <<pc, index, foundFunctions, newFunction>>
    /\ UNCHANGED <<inComment, inString, definitionLineNumber, tempIndex, parenthesisCount>>
    /\ UNCHANGED <<tokVars, emitVars>>

\* findFunctions returns (line 532) and createSubgraph builds the subGraph
\* (line 417)
FindReturn ==
    /\ pc = "scan"
    /\ index = Len(totalFileList)
    /\ pc' = "returned"
    /\ subgraphs' = <<subGraph(ParentName, foundFunctions)>>
    /\ UNCHANGED <<cluster, excludeExternalFunctions, lineNumbers, subgraphNumber,
                   outputLinelist, endLinelist, colorKeyList, nodesDefinedInDirectory>>
    /\ UNCHANGED <<tokVars, findVars, defVars, callVars>>

NextParse == ReadLine \/ FindStart \/ FindStep \/ DefinitionStep \/ CallsStep \/ FindReturn

SpecParse == InitParse /\ [][NextParse]_vars

(***************************************************************************)
(* Properties of the scanners                                              *)
(***************************************************************************)

\* among tokens 1..p: how many are `open`, less how many are `close`
Depth(toks, p, open, close) ==
    Cardinality({k \in 1..p : toks[k] = open})
        - Cardinality({k \in 1..p : toks[k] = close})

\* `open` and `close` are balanced in toks
Balanced(toks, open, close) ==
    /\ \A p \in 1..Len(toks) : Depth(toks, p, open, close) >= 0
    /\ Depth(toks, Len(toks), open, close) = 0

\* no comment of either kind, no string literal, no backslash
PlainText(toks) ==
    \A k \in 1..Len(toks) :
        /\ toks[k] \notin {BEGINLONGCOMMENT, ENDLONGCOMMENT, QUOTE, IGNOREQUOTE}
        /\ Find(toks[k], <<"/", "/">>) = -1

\* plain text with balanced parentheses and braces
PlainBalanced(toks) ==
    /\ PlainText(toks)
    /\ Balanced(toks, <<"(">>, <<")">>)
    /\ Balanced(toks, <<"{">>, <<"}">>)

\* position p (1-based) holds the "{" of a top-level `name ( args ) {`
TopLevelBrace(toks, p) ==
    /\ p \in 2..Len(toks)
    /\ toks[p] = <<"{">>
    /\ toks[p - 1] = <<")">>
    /\ Depth(toks, p - 1, <<"{">>, <<"}">>) = 0

\* the positions of the "(" that the ")" before position p closes
OpenBefore(toks, p) ==
    {q \in 1..(p - 2) :
        /\ toks[q] = <<"(">>
        /\ Depth(toks, q - 1, <<"(">>, <<")">>) = Depth(toks, p - 1, <<"(">>, <<")">>)}

\* the position of the "(" of the parameter list that ends before position p
OpenOf(toks, p) ==
    CHOOSE q \in OpenBefore(toks, p) : \A r \in OpenBefore(toks, p) : r <= q

\* the position of the "}" that closes the "{" at position p
CloseOf(toks, p) ==
    LET closes == {r \in (p + 1)..Len(toks) :
                      /\ toks[r] = <<"}">>
                      /\ Depth(toks, r, <<"{">>, <<"}">>) = Depth(toks, p - 1, <<"{">>, <<"}">>)}
    IN  CHOOSE r \in closes : \A s \in closes : r <= s

\* the positions of the "(" inside the block opened at p whose preceding
\* token passes the denylist filter
CallsInside(toks, p) ==
    {k \in (p + 1)..(CloseOf(toks, p) - 1) :
        toks[k] = <<"(">> /\ toks[k - 1] \notin StandardNames}

\* the part of a token after its last "."
AfterLastDot(token) ==
    LET dots == {i \in 1..Len(token) : token[i] = "."}
    IN  IF dots = {} THEN token
        ELSE SubSeq(token, (CHOOSE i \in dots : \A j \in dots : j <= i) + 1, Len(token))

\* the part of a token between its first "::" and its second, or all of it
\* when it has no "::"
AfterScope(token) ==
    LET i == Find(token, <<":", ":">>)
        rest == SubSeq(token, i + 3, Len(token))
        j == Find(rest, <<":", ":">>)
    IN  IF i = -1 THEN token
        ELSE IF j = -1 THEN rest
        ELSE SubSeq(rest, 1, j)

\* the scan stands in the definition whose "{" is top-level, with a token
\* before the "(" of its parameter list, in a plain balanced text
InTopLevelDefinition ==
    /\ pc \in {"definition", "calls"}
    /\ PlainBalanced(totalFileList)
    /\ TopLevelBrace(totalFileList, index + 1)
    /\ OpenOf(totalFileList, index + 1) >= 2

\* the token before the "(" of the parameter list of the definition at hand
NameToken == totalFileList[OpenOf(totalFileList, index + 1) - 1]

\* the step adds exactly one Definition, with this name and these callees
\* (each once)
AddsDefinition(name, callees) ==
    /\ Len(foundFunctions') = Len(foundFunctions) + 1
    /\ SubSeq(foundFunctions', 1, Len(foundFunctions)) = foundFunctions
    /\ LET n == foundFunctions'[Len(foundFunctions')]
       IN  /\ n.name = name
           /\ Range(n.calledFunctions) = callees
           /\ Len(n.calledFunctions) = Cardinality(callees)

C2_NoStandardCallee ==
    \A k \in 1..Len(foundFunctions) :
        \A c \in Range(foundFunctions[k].calledFunctions) : c \notin StandardNames

\* a begin-long-comment token with no end-long-comment token after it
Unterminated(toks) ==
    \E k \in 1..Len(toks) :
        /\ toks[k] = BEGINLONGCOMMENT
        /\ \A j \in (k + 1)..Len(toks) : toks[j] # ENDLONGCOMMENT

\* C4: the scan of a file with an unterminated long comment neither returns
\* a definition list nor ends in an out-of-range fault (it is reported as a
\* MalformedSourceError).
C4_UnterminatedCommentReported ==
    (linesRead = Len(fileText) /\ Unterminated(totalFileList)) =>
        pc \notin {"returned", "IndexError"}

\* the 1-based number of the line that holds the token at Python index i
LineOfToken(i) ==
    LET t == IF i >= 0 THEN i ELSE Len(totalFileList) + i
        n == Len(lineBreakIndexes) - 1
    IN  CHOOSE l \in 1..n :
            /\ lineBreakIndexes[l + 1] <= t
            /\ l = n \/ t < lineBreakIndexes[l + 2]

\* C9: the line of a Definition is the 1-based number (at least 1) of the
\* line that holds the "(" opening its parameter list.
C9_LineOfOpeningParenthesis ==
    [][(pc = "calls" /\ pc' = "scan") =>
          LET n == foundFunctions'[Len(foundFunctions')]
          IN  n.line >= 1 /\ n.line = LineOfToken(tempIndex)]_vars

(***************************************************************************)
(* segregate, translateSubgraph, translateDirectory                        *)
(***************************************************************************)

Digits == <<"0", "1", "2", "3", "4", "5", "6", "7", "8", "9">>

RECURSIVE str(_)
\* str(n) of an int: its decimal digits
str(n) ==
    IF n < 0 THEN <<"-">> \o str(-n)
    ELSE IF n < 10 THEN <<Digits[n + 1]>>
    ELSE str(n \div 10) \o <<Digits[(n % 10) + 1]>>

\* list1 + list2 + ... : the lists of a list, concatenated
Concat(lists) == Join(lists, <<>>)

segregate_CalledOnly(subgraph) ==
    LET functionsCalledInSubgraph ==
            UNION {Range(subgraph.includedNodes[k].calledFunctions) :
                      k \in 1..Len(subgraph.includedNodes)}
        compressible(node) == node.name \notin functionsCalledInSubgraph
    IN  [subgraph EXCEPT
            !.segregated = TRUE,
            !.nodesToCompress = SelectSeq(subgraph.includedNodes, compressible),
            !.nodesNOTtoCompress =
                SelectSeq(subgraph.includedNodes, LAMBDA node : ~compressible(node))]
\* subGraph.segregate: the subgraph with its two lists filled
segregate(subgraph) ==
    LET functionsCalledInSubgraph ==
            UNION {Range(subgraph.includedNodes[k].calledFunctions) :
                      k \in 1..Len(subgraph.includedNodes)}
        compressible(node) ==
            IF node.name \in functionsCalledInSubgraph THEN FALSE
            ELSE IF Cardinality(Range(node.calledFunctions)
                                    \cap Range(subgraph.functionNamesDefinedInSubgraph)) > 0
            THEN FALSE
            ELSE TRUE
    IN  [subgraph EXCEPT
            !.segregated = TRUE,
            !.nodesToCompress = SelectSeq(subgraph.includedNodes, compressible),
            !.nodesNOTtoCompress =
                SelectSeq(subgraph.includedNodes, LAMBDA node : ~compressible(node))]

\* the identifier a node is written with: name, or name_L<line> with --linenumbers
nodeIdentifier(node) ==
    IF lineNumbers THEN node.name \o <<"_", "L">> \o str(node.line) ELSE node.name

\* lines 113-116, 156-159, 199-202: the declaration of a node
nodeDeclaration(node, fillColor) ==
    nodeIdentifier(node) \o <<" ", "[", "s", "t", "y", "l", "e", "=", "\"", "f", "i", "l", "l", "e", "d", "\"", ",", "f", "i", "l", "l", "c", "o", "l", "o", "r", "=">> \o fillColor \o <<"]", ";">>

plainEdge_CallerFirst(functionCall, node) ==
    nodeIdentifier(node) \o <<" ", "-", ">", " ">> \o functionCall \o <<";">>
\* lines 142-145, 185-188, 206-209: the edge of a call
plainEdge(functionCall, node) ==
    functionCall \o <<" ", "-", ">", " ">> \o nodeIdentifier(node) \o <<";">>

\* lines 134-137, 177-180: the edge of a call into another cluster
clusterEdge(functionCall, node, headName, subgraphName) ==
    IF lineNumbers
    THEN functionCall \o <<" ", "-", ">", " ">> \o nodeIdentifier(node)
             \o <<" ", "[", "l", "h", "e", "a", "d", "=", "c", "l", "u", "s", "t", "e", "r", "_">> \o headName
             \o <<",", "l", "t", "a", "i", "l", "=", "c", "l", "u", "s", "t", "e", "r", "_">> \o subgraphName \o <<"]", ";">>
    ELSE functionCall \o <<" ", "-", ">", " ">> \o nodeIdentifier(node)
             \o <<" ", "[", "l", "t", "a", "i", "l", "=", "c", "l", "u", "s", "t", "e", "r", "_">> \o headName
             \o <<",", "l", "h", "e", "a", "d", "=", "c", "l", "u", "s", "t", "e", "r", "_">> \o subgraphName \o <<"]", ";">>

\* lines 121-130, 164-173: the entries of the tome, other than the
\* subgraph's own, that define functionCall (positions in the tome)
tomeEntriesWith(functionCall, subgraphName, functionDefinitionTome) ==
    {e \in 1..Len(functionDefinitionTome) :
        /\ functionDefinitionTome[e][1] # subgraphName
        /\ functionCall \in Range(functionDefinitionTome[e][2])}

\* foundInTome
foundInTome(functionCall, subgraphName, functionDefinitionTome) ==
    tomeEntriesWith(functionCall, subgraphName, functionDefinitionTome) # {}

\* headName when the loop over the tome stops at its break
headNameOf(functionCall, subgraphName, functionDefinitionTome) ==
    LET entries == tomeEntriesWith(functionCall, subgraphName, functionDefinitionTome)
    IN  functionDefinitionTome[CHOOSE e \in entries : \A f \in entries : e <= f][1]

\* the calls of the nodes, in the order the loops go through them
callsOf(nodes) ==
    Concat([k \in 1..Len(nodes) |->
               [j \in 1..Len(nodes[k].calledFunctions) |->
                   [node |-> nodes[k], functionCall |-> nodes[k].calledFunctions[j]]]])

\* addEdgeBetweenCluster when the loops reach the k-th call: True until an
\* edge between clusters has been added
addEdgeBetweenCluster(calls, k, subgraphName, functionDefinitionTome) ==
    \A j \in 1..(k - 1) :
        ~(/\ Len(calls[j].functionCall) > 0
          /\ foundInTome(calls[j].functionCall, subgraphName, functionDefinitionTome))

\* lines 118-145, 161-188: the edges of the clustered subgraph
clusterTailLinelist(subgraph, functionDefinitionTome) ==
    LET calls == callsOf(subgraph.nodesToCompress \o subgraph.nodesNOTtoCompress)
        edgesOf(k) ==
            LET functionCall == calls[k].functionCall
            IN  IF Len(functionCall) = 0 THEN <<>>
                ELSE IF foundInTome(functionCall, subgraph.name, functionDefinitionTome)
                THEN IF addEdgeBetweenCluster(calls, k, subgraph.name, functionDefinitionTome)
                     THEN <<clusterEdge(functionCall, calls[k].node,
                                        headNameOf(functionCall, subgraph.name,
                                                   functionDefinitionTome),
                                        subgraph.name)>>
                     ELSE <<>>
                ELSE <<plainEdge(functionCall, calls[k].node)>>
    IN  Concat([k \in 1..Len(calls) |-> edgesOf(k)])

\* lines 204-210: the edges of the subgraph without clusters
plainTailLinelist(subgraph) ==
    LET calls == callsOf(subgraph.includedNodes)
    IN  Concat([k \in 1..Len(calls) |->
                   IF Len(calls[k].functionCall) > 0
                   THEN <<plainEdge(calls[k].functionCall, calls[k].node)>>
                   ELSE <<>>])

\* int(math.sqrt(n))
isqrt(n) == CHOOSE h \in 0..n : h * h <= n /\ (h + 1) * (h + 1) > n

\* lines 96-99: cluserHeight
cluserHeightOf(numberOfNodesToCompress) ==
    IF isqrt(numberOfNodesToCompress) = 0 THEN 1 ELSE isqrt(numberOfNodesToCompress)

\* line 100: clusterWidth
clusterWidthOf(numberOfNodesToCompress) ==
    (numberOfNodesToCompress \div cluserHeightOf(numberOfNodesToCompress)) + 1

\* lines 104-150: the block of one compressed row; the row takes the nodes
\* at the indexes row*(clusterWidth+1) .. (row+1)*(clusterWidth+1)-1 that exist
rowBlock(subgraph, row, fillColor) ==
    LET nodes == subgraph.nodesToCompress
        clusterWidth == clusterWidthOf(Len(nodes))
        rowNodes == PySlice(nodes, row * (clusterWidth + 1), (row + 1) * (clusterWidth + 1))
    IN  << <<"s", "u", "b", "g", "r", "a", "p", "h", " ", "n", "e", "w", "R", "o", "w">> \o str(row) \o <<"_">> \o subgraph.name \o <<" ", "{">>,
           <<"r", "a", "n", "k", "=", "\"", "s", "a", "m", "e", "\"", ";">>,
           subgraph.name \o <<"_", "r", "o", "w">> \o str(row) \o <<" ", "[", "f", "o", "n", "t", "s", "i", "z", "e", "=", "1", ".", "0", ",", "s", "t", "y", "l", "e", "=", "\"", "i", "n", "v", "i", "s", "\"", "]", ";">> >>
        \o [k \in 1..Len(rowNodes) |-> nodeDeclaration(rowNodes[k], fillColor)]
        \o << <<"}">> >>

\* lines 192-194: the invisible edge that orders row and row + 1
rowOrderEdge(subgraph, row) ==
    subgraph.name \o <<"_", "r", "o", "w">> \o str(row) \o <<" ", "-", ">", " ">>
        \o subgraph.name \o <<"_", "r", "o", "w">> \o str(row + 1) \o <<" ", "[", "s", "t", "y", "l", "e", "=", "\"", "i", "n", "v", "i", "s", "\"", "]", ";">>

\* lines 72-95, 104-194, 212: subLinelist of the clustered subgraph
clusterSubLinelist(subgraph, fillColor) ==
    LET cluserHeight == cluserHeightOf(Len(subgraph.nodesToCompress))
        nodesNOTtoCompress == subgraph.nodesNOTtoCompress
    IN  << <<"s", "u", "b", "g", "r", "a", "p", "h", " ", "c", "l", "u", "s", "t", "e", "r", "_">> \o subgraph.name \o <<" ", "{">>,
           <<"l", "a", "b", "e", "l", "=", "\"">> \o subgraph.name \o <<"\"", ";">>,
           <<"s", "t", "y", "l", "e", "=", "\"", "f", "i", "l", "l", "e", "d", "\"", ";">>,
           <<"f", "i", "l", "l", "c", "o", "l", "o", "r", "=", "\"", "#", "f", "0", "f", "0", "f", "0", "\"", ";">>,
           <<"c", "l", "u", "s", "t", "e", "r", "r", "a", "n", "k", "=", "\"", "l", "o", "c", "a", "l", "\"">> >>
        \o Concat([r \in 1..cluserHeight |-> rowBlock(subgraph, r - 1, fillColor)])
        \o [k \in 1..Len(nodesNOTtoCompress) |->
                nodeDeclaration(nodesNOTtoCompress[k], fillColor)]
        \o [r \in 1..(cluserHeight - 1) |-> rowOrderEdge(subgraph, r - 1)]
        \o << <<"}">> >>

\* lines 75-78, 196-202, 212: subLinelist of the subgraph without clusters
plainSubLinelist(subgraph, number, fillColor) ==
    << <<"s", "u", "b", "g", "r", "a", "p", "h", " ", "n", "o", "n", "C", "l", "u", "s", "t", "e", "r", "_">> \o str(number) \o <<" ", "{">> >>
        \o [k \in 1..Len(subgraph.includedNodes) |->
                nodeDeclaration(subgraph.includedNodes[k], fillColor)]
        \o << <<"}">> >>

\* translateSubgraph: the subgraph as segregate leaves it, subLinelist and
\* tailLinelist
translateSubgraph(subgraph, number, fillColor, functionDefinitionTome) ==
    IF cluster
    THEN LET segregated == segregate(subgraph)
         IN  [subgraph |-> segregated,
              subLinelist |-> clusterSubLinelist(segregated, fillColor),
              tailLinelist |-> clusterTailLinelist(segregated, functionDefinitionTome)]
    ELSE [subgraph |-> subgraph,
          subLinelist |-> plainSubLinelist(subgraph, number, fillColor),
          tailLinelist |-> plainTailLinelist(subgraph)]

\* randomColorGenerator: '"#' and six hexadecimal digits '"'; two of the
\* codes it can return
Colors == { <<"\"", "#", "9", "0", "a", "0", "f", "f", "\"">>, <<"\"", "#", "0", "1", "0", "0", "9", "0", "\"">> }

\* fileExtension, as given on the command line
fileExtension == <<".", "c">>

\* lines 244-246: functionDefinitionTome
functionDefinitionTomeOf(graphs) ==
    [k \in 1..Len(graphs) |-> <<graphs[k].name, graphs[k].functionNamesDefinedInSubgraph>>]

calledFunctionOf_Target(edge) ==
    LET parts == Split(Replace(edge, <<" ">>, <<>>), <<"-", ">">>)
    IN  parts[Len(parts)]
\* line 271: the called function of an edge
calledFunctionOf(edge) == Split(Replace(edge, <<" ">>, <<>>), <<"-", ">">>)[1]

\* lines 266-268: functionsDefinedInDirectory
functionsDefinedInDirectoryOf(nodes) == {nodes[k].name : k \in 1..Len(nodes)}

\* The names of functions, and the names of calls: a call can also be the
\* empty name (sanitizeName of ";").
FunctionNames == << <<"a">>, <<"b">>, <<"c">>, <<"d">> >>

\* The names of the files (without extension), all different
FileNames == << <<"p">>, <<"q">>, <<"r">>, <<"s">> >>

\* the names of n functions, each the next new name or one used before
NameChoices(n) ==
    {s \in [1..n -> 1..n] :
        /\ s[1] = 1
        /\ \A k \in 2..n : \E j \in 1..(k - 1) : s[k] <= s[j] + 1}

\* the lists a list(set(...)) of calls can be: no name twice
CallLists ==
    {l \in SeqsUpTo({FunctionNames[k] : k \in 1..MaxNodes} \cup {<<>>}, MaxCalls) :
        Cardinality(Range(l)) = Len(l)}

RECURSIVE SumLen(_, _)
SumLen(lists, n) == IF n = 0 THEN 0 ELSE Len(lists[n]) + SumLen(lists, n - 1)

\* the calledFunctions of n nodes, MaxCalls calls in all at most
CallChoices(n) == {c \in [1..n -> CallLists] : SumLen(c, n) <= MaxCalls}

\* the files of n nodes: file f holds the nodes after cut f - 1 up to cut f
CutChoices(n) == SUBSET (1..(n - 1))

\* graphDirectory: the subGraph of each file
Directory(n, names, calls, cuts) ==
    LET bounds == SelectSeq([k \in 1..n |-> k], LAMBDA k : k \in cuts \/ k = n)
    IN  [f \in 1..Len(bounds) |->
            subGraph(FileNames[f],
                     [k \in 1..(bounds[f] - (IF f = 1 THEN 0 ELSE bounds[f - 1])) |->
                         [Node(FunctionNames[names[(IF f = 1 THEN 0 ELSE bounds[f - 1]) + k]],
                               FileNames[f],
                               (IF f = 1 THEN 0 ELSE bounds[f - 1]) + k - 1,
                               <<>>)
                          EXCEPT !.calledFunctions =
                              calls[(IF f = 1 THEN 0 ELSE bounds[f - 1]) + k]]])]

\* translateDirectory, lines 229-246: the lists as they stand once
\* graphDirectory has returned the subgraphs
InitEmit ==
    /\ pc = "translate"
    /\ \E n \in 1..MaxNodes :
          \E names \in NameChoices(n), calls \in CallChoices(n), cuts \in CutChoices(n) :
              subgraphs = Directory(n, names, calls, cuts)
    /\ cluster \in BOOLEAN
    /\ excludeExternalFunctions \in BOOLEAN
    /\ lineNumbers \in BOOLEAN
    /\ subgraphNumber = 0
    /\ outputLinelist = << <<"d", "i", "g", "r", "a", "p", "h", " ", "{">>, <<"o", "v", "e", "r", "l", "a", "p", "=", "f", "a", "l", "s", "e", ";">>, <<"c", "o", "n", "c", "e", "n", "t", "r", "a", "t", "e", "=", "t", "r", "u", "e", ";">>,
                           <<"c", "o", "m", "p", "o", "u", "n", "d", "=", "t", "r", "u", "e", ";">>, <<"r", "a", "n", "k", "d", "i", "r", "=", "\"", "B", "T", "\"", ";">> >>
    /\ endLinelist = <<>>
    /\ colorKeyList = << <<"s", "u", "b", "g", "r", "a", "p", "h", " ", "c", "l", "u", "s", "t", "e", "r", "_", "k", "e", "y", "{">>, <<"l", "a", "b", "e", "l", "=", "\"", "K", "e", "y", "\"", ";">> >>
    /\ nodesDefinedInDirectory = <<>>
    /\ fileText = <<>>
    /\ totalFileList = <<>>
    /\ lineBreakIndexes = <<0>>
    /\ secondPass = <<>>
    /\ IdleFind
    /\ IdleDef
    /\ IdleCalls

\* translateDirectory, one pass of the loop of line 248
TranslateSubgraph ==
    /\ pc = "translate"
    /\ subgraphNumber < Len(subgraphs)
    /\ \E fillColor \in Colors :
          LET subgraph == subgraphs[subgraphNumber + 1]
              translated == translateSubgraph(subgraph, subgraphNumber, fillColor,
                                              functionDefinitionTomeOf(subgraphs))
          IN  /\ nodesDefinedInDirectory' = nodesDefinedInDirectory \o subgraph.includedNodes
              /\ colorKeyList' =
                     Append(colorKeyList,
                            subgraph.name \o <<"_">> \o PySlice(fileExtension, 1, Len(fileExtension))
                                \o <<" ", "[", "s", "t", "y", "l", "e", "=", "\"", "f", "i", "l", "l", "e", "d", "\"", ",", " ", "s", "h", "a", "p", "e", "=", "r", "e", "c", "t", "a", "n", "g", "l", "e", ",", " ", "f", "i", "l", "l", "c", "o", "l", "o", "r", "=">>
                                \o fillColor \o <<"]", ";">>)
              /\ subgraphs' = [subgraphs EXCEPT ![subgraphNumber + 1] = translated.subgraph]
              /\ outputLinelist' = outputLinelist \o translated.subLinelist
              /\ endLinelist' = endLinelist \o translated.tailLinelist
    /\ subgraphNumber' = subgraphNumber + 1
    /\ UNCHANGED <<pc, cluster, excludeExternalFunctions, lineNumbers>>
    /\ UNCHANGED <<tokVars, findVars, defVars, callVars>>

\* translateDirectory, lines 261-276: with --exclusive, the edges whose
\* called function is not defined in the directory are deleted
DeleteExternal ==
    /\ pc = "translate"
    /\ subgraphNumber = Len(subgraphs)
    /\ excludeExternalFunctions
    /\ endLinelist' =
           SelectSeq(endLinelist,
                     LAMBDA edge : calledFunctionOf(edge)
                                       \in functionsDefinedInDirectoryOf(nodesDefinedInDirectory))
    /\ pc' = "filtered"
    /\ UNCHANGED <<subgraphs, cluster, excludeExternalFunctions, lineNumbers,
                   subgraphNumber, outputLinelist, colorKeyList, nodesDefinedInDirectory>>
    /\ UNCHANGED <<tokVars, findVars, defVars, callVars>>

\* translateDirectory, lines 278-287: the lists are put together and written
WriteOutput ==
    /\ \/ pc = "filtered"
       \/ pc = "translate" /\ subgraphNumber = Len(subgraphs) /\ ~excludeExternalFunctions
    /\ colorKeyList' = Append(colorKeyList, <<"}">>)
    /\ outputLinelist' = outputLinelist \o colorKeyList' \o endLinelist \o << <<"}">> >>
    /\ pc' = "written"
    /\ UNCHANGED <<subgraphs, cluster, excludeExternalFunctions, lineNumbers,
                   subgraphNumber, endLinelist, nodesDefinedInDirectory>>
    /\ UNCHANGED <<tokVars, findVars, defVars, callVars>>

NextEmit == TranslateSubgraph \/ DeleteExternal \/ WriteOutput

SpecEmit == InitEmit /\ [][NextEmit]_vars

(***************************************************************************)
(* Properties of the emitter                                               *)
(***************************************************************************)

\* the loop of translateDirectory has gone through every file, and nothing
\* has been deleted from the edge list
AllTranslated == pc = "translate" /\ subgraphNumber = Len(subgraphs)

\* an edge line carries cluster attributes
IsClusterEdge(edge) == Find(edge, <<" ", "[">>) # -1

\* the source of an edge line: the text before its " -> "
EdgeSource(edge) == SubSeq(edge, 1, Find(edge, <<" ", "-", ">", " ">>))

\* the target of an edge line: the text after its " -> ", up to the ";" or
\* to the blank before the attributes
EdgeTarget(edge) ==
    LET rest == SubSeq(edge, Find(edge, <<" ", "-", ">", " ">>) + 5, Len(edge))
        stops == {i \in 1..Len(rest) : rest[i] \in {";", " "}}
    IN  SubSeq(rest, 1, (CHOOSE i \in stops : \A j \in stops : i <= j) - 1)

\* the two cluster names of a cluster edge, in the order written
EdgeClusters(edge) ==
    LET parts == Split(edge, <<"c", "l", "u", "s", "t", "e", "r", "_">>)
    IN  <<SubSeq(parts[2], 1, Find(parts[2], <<",">>)),
          SubSeq(parts[3], 1, Find(parts[3], <<"]">>))>>

\* every call of every Definition: file, node and position in calledFunctions
AllCalls ==
    {<<f, k, j>> \in (1..Len(subgraphs)) \X (1..MaxNodes) \X (1..MaxCalls) :
        /\ k <= Len(subgraphs[f].includedNodes)
        /\ j <= Len(subgraphs[f].includedNodes[k].calledFunctions)}

CalleeOf(call) == subgraphs[call[1]].includedNodes[call[2]].calledFunctions[call[3]]

CallerOf(call) == subgraphs[call[1]].includedNodes[call[2]]

\* the names defined in the files of the directory
DefinedNames ==
    UNION {Range(subgraphs[f].functionNamesDefinedInSubgraph) : f \in 1..Len(subgraphs)}

\* C5: without --cluster and without --exclusive, the edges are, one for one,
\* the pairs (Definition n, non-empty name c of n.calledFunctions), each
\* written with source c and target n, and there is no other edge.
C5_OneEdgePerCall ==
    (AllTranslated /\ ~cluster /\ ~excludeExternalFunctions) =>
        LET calls == {call \in AllCalls : Len(CalleeOf(call)) > 0}
            edges == 1..Len(endLinelist)
            ends == {<<EdgeSource(endLinelist[e]), EdgeTarget(endLinelist[e])>> : e \in edges}
                        \cup {<<CalleeOf(call), nodeIdentifier(CallerOf(call))>> : call \in calls}
        IN  /\ Len(endLinelist) = Cardinality(calls)
            /\ \A p \in ends :
                  Cardinality({e \in edges : /\ EdgeSource(endLinelist[e]) = p[1]
                                             /\ EdgeTarget(endLinelist[e]) = p[2]})
                      = Cardinality({call \in calls :
                                        /\ CalleeOf(call) = p[1]
                                        /\ nodeIdentifier(CallerOf(call)) = p[2]})

\* file p holds a, which calls b; file q holds b: the edge is "b -> a;"
C5_Witness ==
    /\ pc = "written"
    /\ ~cluster
    /\ ~excludeExternalFunctions
    /\ ~lineNumbers
    /\ Len(subgraphs) = 2
    /\ Len(subgraphs[1].includedNodes) = 1
    /\ Len(subgraphs[2].includedNodes) = 1
    /\ subgraphs[1].includedNodes[1].name = <<"a">>
    /\ subgraphs[1].includedNodes[1].calledFunctions = << <<"b">> >>
    /\ subgraphs[2].includedNodes[1].name = <<"b">>
    /\ subgraphs[2].includedNodes[1].calledFunctions = <<>>
    /\ endLinelist = << <<"b", " ", "-", ">", " ", "a", ";">> >>

\* no name is defined in two files, or twice in a file
DefinedOnce ==
    \A f \in 1..Len(subgraphs), g \in 1..Len(subgraphs) :
        \A k \in 1..Len(subgraphs[f].includedNodes), l \in 1..Len(subgraphs[g].includedNodes) :
            subgraphs[f].includedNodes[k].name = subgraphs[g].includedNodes[l].name
                => (f = g /\ k = l)

\* C6: with --cluster, for every ordered pair of different files (S, T) there
\* is at most one cluster edge of S into T, and when S calls a name defined in
\* T, that edge is the one of the first such call in the order of emission
\* (checked where every name has one definition).
C6_FirstCallOfEachPair ==
    (AllTranslated /\ cluster /\ DefinedOnce) =>
        \A S \in 1..Len(subgraphs), T \in 1..Len(subgraphs) :
            S # T =>
                LET edges == {e \in 1..Len(endLinelist) :
                                 /\ IsClusterEdge(endLinelist[e])
                                 /\ EdgeClusters(endLinelist[e])
                                        = <<subgraphs[T].name, subgraphs[S].name>>}
                    calls == SelectSeq(
                                 callsOf(subgraphs[S].nodesToCompress
                                             \o subgraphs[S].nodesNOTtoCompress),
                                 LAMBDA c : /\ Len(c.functionCall) > 0
                                            /\ c.functionCall \in
                                                   Range(subgraphs[T].functionNamesDefinedInSubgraph))
                IN  /\ Cardinality(edges) <= 1
                    /\ calls # <<>> =>
                          \E e \in edges :
                              /\ EdgeSource(endLinelist[e]) = calls[1].functionCall
                              /\ EdgeTarget(endLinelist[e]) = nodeIdentifier(calls[1].node)

\* C7: with --exclusive, the deletion leaves exactly the edges whose source is
\* the name of a Definition of some file of the directory, in their order.
C7_KeepsDefinedSources ==
    [][(pc = "translate" /\ pc' = "filtered") =>
          endLinelist' = SelectSeq(endLinelist,
                                   LAMBDA edge : EdgeSource(edge) \in DefinedNames)]_vars

\* with --cluster and --exclusive, an edge has been kept and an edge has
\* been deleted
C7_Witness ==
    /\ pc = "filtered"
    /\ cluster
    /\ endLinelist # <<>>
    /\ \A e \in 1..Len(endLinelist) : EdgeSource(endLinelist[e]) \in DefinedNames
    /\ \E call \in AllCalls :
          /\ Len(CalleeOf(call)) > 0
          /\ CalleeOf(call) \notin DefinedNames

\* (a) the name of the node is called by a node of the file, or (b) the node
\* calls a name defined in the file
NotCompressible(subgraph, node) ==
    \/ \E k \in 1..Len(subgraph.includedNodes) :
          node.name \in Range(subgraph.includedNodes[k].calledFunctions)
    \/ Range(node.calledFunctions) \cap Range(subgraph.functionNamesDefinedInSubgraph) # {}

\* C8: segregate puts every node of includedNodes in exactly one of the two
\* lists: in nodesNOTtoCompress when (a) or (b) holds, in nodesToCompress
\* otherwise, both lists in the order of includedNodes.
C8_SegregatePartitions ==
    \A f \in 1..Len(subgraphs) :
        subgraphs[f].segregated =>
            /\ subgraphs[f].nodesNOTtoCompress =
                   SelectSeq(subgraphs[f].includedNodes,
                             LAMBDA node : NotCompressible(subgraphs[f], node))
            /\ subgraphs[f].nodesToCompress =
                   SelectSeq(subgraphs[f].includedNodes,
                             LAMBDA node : ~NotCompressible(subgraphs[f], node))
            /\ Len(subgraphs[f].nodesNOTtoCompress) + Len(subgraphs[f].nodesToCompress)
                   = Len(subgraphs[f].includedNodes)
            /\ Range(subgraphs[f].nodesNOTtoCompress)
                   \cap Range(subgraphs[f].nodesToCompress) = {}

\* a file of three nodes has been segregated: one is called in the file, one
\* calls into the file, one does neither
C8_Witness ==
    \E f \in 1..Len(subgraphs) :
        /\ subgraphs[f].segregated
        /\ Len(subgraphs[f].nodesNOTtoCompress) = 2
        /\ Len(subgraphs[f].nodesToCompress) = 1
        /\ subgraphs[f].nodesNOTtoCompress[1].calledFunctions
               # subgraphs[f].nodesNOTtoCompress[2].calledFunctions

\* ------------------------------------------------------------------------
\* The two context trackers side by side: the head of findFunctions' loop
\* pass (lines 507-518) and the head of parseFunctionCalls' loop pass
\* (lines 605-620), run over one token sequence from the same position.

MaxTokens == 4

\* an ordinary token and the four sentinels of replaceCharacters
TrackTokens == {<<"a">>, BEGINLONGCOMMENT, ENDLONGCOMMENT, QUOTE, IGNOREQUOTE}

\* Both trackers are about to examine the token at Python index 1 with their
\* flags as lines 504-505 and 601-602 set them: findFunctions with index = 1,
\* parseFunctionCalls with startingIndex = 0 (it increments before it looks).
InitTrack ==
    /\ pc = "track"
    /\ fileText = <<>>
    /\ totalFileList \in SeqsUpTo(TrackTokens, MaxTokens) \ {<<>>}
    /\ lineBreakIndexes = <<0>>
    /\ secondPass = <<>>
    /\ index = 1
    /\ inComment = FALSE
    /\ inString = FALSE
    /\ foundFunctions = <<>>
    /\ definitionLineNumber = 0
    /\ IdleDef
    /\ IdleCalls
    /\ IdleEmit

\* lines 507-518: findFunctions examines the next token.  None of
\* TrackTokens is "{", so the rest of the pass (lines 520-530) does nothing.
TrackFind ==
    /\ pc = "track"
    /\ index = tempIndexCalls + 1
    /\ index < Len(totalFileList)
    /\ LET token == PyAt(totalFileList, index)
           c == findCommentAfter(token, inComment)
           s == stringAfter(totalFileList, index, c, inString)
       IN  /\ inComment' = c
           /\ inString' = s
    /\ index' = index + 1
    /\ UNCHANGED <<pc, foundFunctions, definitionLineNumber>>
    /\ UNCHANGED <<tokVars, defVars, callVars, emitVars>>

\* lines 605-620: parseFunctionCalls examines the same token.  None of
\* TrackTokens is a brace or "(", so the rest of the pass (lines 622-633)
\* does nothing.
TrackCalls ==
    /\ pc = "track"
    /\ tempIndexCalls + 1 < index
    /\ tempIndexCalls' = tempIndexCalls + 1
    /\ LET token == PyAt(totalFileList, tempIndexCalls')
           c == callCommentAfter(token, inCommentCalls, inStringCalls)
           s == stringAfter(totalFileList, tempIndexCalls', c, inStringCalls)
       IN  /\ inCommentCalls' = c
           /\ inStringCalls' = s
    /\ UNCHANGED <<pc, braceCount, calledFunctions>>
    /\ UNCHANGED <<tokVars, findVars, defVars, emitVars>>

NextTrack == TrackFind \/ TrackCalls

SpecTrack == InitTrack /\ [][NextTrack]_vars

\* both trackers have examined the same tokens
TrackersLevel == pc = "track" /\ index = tempIndexCalls + 1

\* C11: whenever the definition scanner's tracker and the call scanner's
\* tracker, started together with both flags false, have examined the same
\* tokens, they hold the same (inComment, inString) pair.
C11_SameContext ==
    TrackersLevel =>
        <<inComment, inString>> = <<inCommentCalls, inStringCalls>>

\* ------------------------------------------------------------------------
\* translateDirectory over one file of many functions, with --cluster: the
\* compressed rows of translateSubgraph

MaxRowNodes == 6

\* the name of the k-th function of the file: f1, f2, ...
RowFunctionName(k) == <<"f">> \o str(k)

\* what the k-th function calls: nothing, a function defined nowhere in the
\* directory, or itself (a function called in its own file is not compressed)
RowCallLists(k) == {<<>>, << <<"x">> >>, <<RowFunctionName(k)>>}

\* graphDirectory: the subGraph of the one file p.c, its functions on the
\* lines 0, 1, ...
RowDirectory(calls) ==
    << subGraph(FileNames[1],
                [k \in 1..Len(calls) |->
                    [Node(RowFunctionName(k), FileNames[1], k - 1, <<>>)
                     EXCEPT !.calledFunctions = calls[k]]]) >>

\* translateDirectory, lines 229-246, called with --cluster
InitRows ==
    /\ pc = "translate"
    /\ \E n \in 1..MaxRowNodes :
          \E calls \in {c \in [1..n -> UNION {RowCallLists(k) : k \in 1..n}] :
                           \A k \in 1..n : c[k] \in RowCallLists(k)} :
              subgraphs = RowDirectory(calls)
    /\ cluster = TRUE
    /\ excludeExternalFunctions \in BOOLEAN
    /\ lineNumbers \in BOOLEAN
    /\ subgraphNumber = 0
    /\ outputLinelist = << <<"d", "i", "g", "r", "a", "p", "h", " ", "{">>, <<"o", "v", "e", "r", "l", "a", "p", "=", "f", "a", "l", "s", "e", ";">>, <<"c", "o", "n", "c", "e", "n", "t", "r", "a", "t", "e", "=", "t", "r", "u", "e", ";">>,
                           <<"c", "o", "m", "p", "o", "u", "n", "d", "=", "t", "r", "u", "e", ";">>, <<"r", "a", "n", "k", "d", "i", "r", "=", "\"", "B", "T", "\"", ";">> >>
    /\ endLinelist = <<>>
    /\ colorKeyList = << <<"s", "u", "b", "g", "r", "a", "p", "h", " ", "c", "l", "u", "s", "t", "e", "r", "_", "k", "e", "y", "{">>, <<"l", "a", "b", "e", "l", "=", "\"", "K", "e", "y", "\"", ";">> >>
    /\ nodesDefinedInDirectory = <<>>
    /\ fileText = <<>>
    /\ totalFileList = <<>>
    /\ lineBreakIndexes = <<0>>
    /\ secondPass = <<>>
    /\ IdleFind
    /\ IdleDef
    /\ IdleCalls

SpecRows == InitRows /\ [][NextEmit]_vars

\* the output lines that open a row block
RowHeaders ==
    {j \in 1..Len(outputLinelist) : StartsWith(outputLinelist[j], 1, <<"s", "u", "b", "g", "r", "a", "p", "h", " ", "n", "e", "w", "R", "o", "w">>)}

\* the 0-based number of the row block opened at line j
RowNumberOf(j) == Cardinality({h \in RowHeaders : h < j})

\* the line that closes the row block opened at line j
RowEnd(j) ==
    CHOOSE k \in (j + 1)..Len(outputLinelist) :
        /\ outputLinelist[k] = <<"}">>
        /\ \A m \in (j + 1)..(k - 1) : outputLinelist[m] # <<"}">>

\* the node declarations inside the row block opened at line j
RowDeclarations(j) ==
    {k \in (j + 1)..(RowEnd(j) - 1) :
        Find(outputLinelist[k], <<" ", "[", "s", "t", "y", "l", "e", "=", "\"", "f", "i", "l", "l", "e", "d", "\"", ",", "f", "i", "l", "l", "c", "o", "l", "o", "r", "=">>) # -1}

\* the line declares the node
DeclaresNode(line, node) ==
    StartsWith(line, 1, nodeIdentifier(node) \o <<" ", "[", "s", "t", "y", "l", "e", "=", "\"", "f", "i", "l", "l", "e", "d", "\"", ",", "f", "i", "l", "l", "c", "o", "l", "o", "r", "=">>)

\* the invisible edges that order the rows
RowOrderEdges ==
    {k \in 1..Len(outputLinelist) :
        /\ Find(outputLinelist[k], <<"_", "r", "o", "w">>) # -1
        /\ Find(outputLinelist[k], <<" ", "-", ">", " ">>) # -1
        /\ Find(outputLinelist[k], <<" ", "[", "s", "t", "y", "l", "e", "=", "\"", "i", "n", "v", "i", "s", "\"", "]", ";">>) # -1}

\* height = max(1, floor(sqrt(count)))
RowHeight(count) == IF isqrt(count) >= 1 THEN isqrt(count) ELSE 1

\* width = floor(count / height) + 1
RowWidth(count) == (count \div RowHeight(count)) + 1

\* the one file of the directory has been translated with --cluster
RowsTranslated == AllTranslated /\ cluster /\ Len(subgraphs) = 1

\* there are height row blocks and height - 1 ordering edges
RowBlocksAndEdges ==
    RowsTranslated =>
        LET count == Len(subgraphs[1].nodesToCompress)
        IN  /\ Cardinality(RowHeaders) = RowHeight(count)
            /\ Cardinality(RowOrderEdges) = RowHeight(count) - 1

\* the compressible node at position i is declared in row floor(i / width)
\* and in no other row
RowOfPosition ==
    RowsTranslated =>
        LET nodes == subgraphs[1].nodesToCompress
        IN  \A i \in 0..(Len(nodes) - 1) : \A j \in RowHeaders :
                (\E k \in RowDeclarations(j) : DeclaresNode(outputLinelist[k], nodes[i + 1]))
                    <=> RowNumberOf(j) = i \div RowWidth(Len(nodes))

\* every compressible node is declared in exactly one row, once
RowDeclaredOnce ==
    RowsTranslated =>
        LET nodes == subgraphs[1].nodesToCompress
        IN  \A i \in 1..Len(nodes) :
                Cardinality({k \in UNION {RowDeclarations(j) : j \in RowHeaders} :
                                DeclaresNode(outputLinelist[k], nodes[i])}) = 1

\* no row holds more than width nodes
RowsWithinWidth ==
    RowsTranslated =>
        \A j \in RowHeaders :
            Cardinality(RowDeclarations(j)) <= RowWidth(Len(subgraphs[1].nodesToCompress))

\* C12: with --cluster and count compressible nodes, height =
\* max(1, floor(sqrt(count))) and width = floor(count / height) + 1, the output
\* has exactly height row blocks and height - 1 invisible ordering edges, the
\* compressible node at position i is declared in row floor(i / width) and in
\* no other row, every compressible node is declared exactly once, and no row
\* holds more than width nodes.
C12_RowLayout ==
    /\ RowBlocksAndEdges
    /\ RowOfPosition
    /\ RowDeclaredOnce
    /\ RowsWithinWidth

\* the identifiers under which nodes are declared in the file blocks: the
\* text before the attributes of each declaration line
DeclaredIdentifiers ==
    {SubSeq(outputLinelist[k], 1, Find(outputLinelist[k], <<" ", "[", "s", "t", "y", "l", "e", "=", "\"", "f", "i", "l", "l", "e", "d", "\"", ",", "f", "i", "l", "l", "c", "o", "l", "o", "r", "=">>)) :
        k \in {j \in 1..Len(outputLinelist) :
                  Find(outputLinelist[j], <<" ", "[", "s", "t", "y", "l", "e", "=", "\"", "f", "i", "l", "l", "e", "d", "\"", ",", "f", "i", "l", "l", "c", "o", "l", "o", "r", "=">>) # -1}}

\* the function an edge endpoint names: the endpoint without its _L<n>
EndpointName(endpoint) ==
    IF lineNumbers /\ Find(endpoint, <<"_", "L">>) # -1
    THEN SubSeq(endpoint, 1, Find(endpoint, <<"_", "L">>))
    ELSE endpoint

\* the endpoint, when it names a function defined in the directory, is an
\* identifier under which a node is declared
EndpointDeclared(endpoint) ==
    EndpointName(endpoint) \in DefinedNames => endpoint \in DeclaredIdentifiers

\* every file of the directory has been translated
EveryFileTranslated == pc \in {"translate", "filtered", "written"} /\ subgraphNumber = Len(subgraphs)

\* the caller end (the target) of every edge is a declared identifier
CallerEndsDeclared ==
    EveryFileTranslated =>
        \A e \in 1..Len(endLinelist) : EndpointDeclared(EdgeTarget(endLinelist[e]))

\* without --linenumbers, both ends of every edge are declared identifiers
EndsDeclaredWithoutLineNumbers ==
    (EveryFileTranslated /\ ~lineNumbers) =>
        \A e \in 1..Len(endLinelist) :
            /\ EndpointDeclared(EdgeSource(endLinelist[e]))
            /\ EndpointDeclared(EdgeTarget(endLinelist[e]))

\* C13: in every mode, each end of an emitted edge that names a function
\* defined in the directory is the identifier under which a node of that
\* function is declared (with --linenumbers, the name with its _L<n>), so no
\* edge refers to an undeclared node for a defined function.
C13_EdgeEndsDeclared ==
    EveryFileTranslated =>
        \A e \in 1..Len(endLinelist) :
            /\ EndpointDeclared(EdgeSource(endLinelist[e]))
            /\ EndpointDeclared(EdgeTarget(endLinelist[e]))

====
